---- MODULE Spec2Model ----
(***************************************************************************)
(* Model of dmm/protocols/protocol_dmm.py (ProtDMMValidation): the three   *)
(* registered steps convertInputStep / DMMStep / createOutputStep, the     *)
(* fixed-column score parser parseDMMScores, the chimeraResample poll loop *)
(* and two runs sharing the predictor's installation directory.            *)
(***************************************************************************)
EXTENDS Integers, Sequences, FiniteSets, TLC

(* ------------------------------- state -------------------------------- *)
\* parseDMMScores: the lines of the file, the loop position, the dictionary
VARIABLES pdbFile, lineNo, DMMDic, parsePc

\* one run of the protocol: the position in the steps, the stages completed,
\* the file system, the run's parameters, the predictor's exit code, the
\* exception that failed the run, the warnings, the parsed scores, the output,
\* and the file system as it was before DMMStep and when the predictor exited
VARIABLES pc, done, fs, cfg, exitCode, error, warnings, DMMScoresDic, output,
          fsBeforeStep, fsAfterJob, relocated

\* chimeraResample: the position in the function, its arguments and the
\* environment, the files that exist, the script written, the sleeps so far,
\* whether the external tool has been run
VARIABLES rpc, rin, rfs, script, sleeps, toolRun

\* two runs sharing the installation directory: each run's position, its
\* volume name and object id, the shared file system, what each predictor
\* has written so far
VARIABLES cpc, cname, cfs, cwritten

parseVars == <<pdbFile, lineNo, DMMDic, parsePc>>

runVars == <<pc, done, fs, cfg, exitCode, error, warnings, DMMScoresDic, output,
             fsBeforeStep, fsAfterJob, relocated>>

pollVars == <<rpc, rin, rfs, script, sleeps, toolRun>>

concVars == <<cpc, cname, cfs, cwritten>>

vars == <<parseVars, runVars, pollVars, concVars>>

(* ------------------------------ bounds -------------------------------- *)
MaxLines == 3

\* the sleeps counted in the poll loop (the loop itself is not bounded)
MaxSleeps == 3

(* --------------------------- text helpers ----------------------------- *)
\* A text line is a sequence of one-character strings; "NL" is the newline
\* that iterating a Python file object leaves at the end of every line.
Whitespace == {" ", "NL"}

Min(a, b) == IF a < b THEN a ELSE b

\* Python slice s[lo:hi] (0-based, hi exclusive, never raises)
Slice(s, lo, hi) == SubSeq(s, lo + 1, Min(hi, Len(s)))

\* str.startswith
startswith(s, p) == Len(s) >= Len(p) /\ SubSeq(s, 1, Len(p)) = p

RECURSIVE lstrip(_)
lstrip(s) == IF s # <<>> /\ Head(s) \in Whitespace THEN lstrip(Tail(s)) ELSE s

RECURSIVE rstrip(_)
rstrip(s) ==
    IF s # <<>> /\ s[Len(s)] \in Whitespace THEN rstrip(SubSeq(s, 1, Len(s) - 1)) ELSE s

\* str.strip
strip(s) == rstrip(lstrip(s))

(* ----------------------- bounded score-file input --------------------- *)
RECURSIVE Pad(_, _)
Pad(c, n) == IF n = 0 THEN <<>> ELSE <<c>> \o Pad(c, n - 1)

ATOM   == <<"A", "T", "O", "M">>
HETATM == <<"H", "E", "T", "A", "T", "M">>
REMARK == <<"R", "E", "M", "A", "R", "K">>

\* A fixed-column record: record name in columns 0-5, chain in column 21,
\* residue number in columns 22-25, score in columns 60-65; cut to `len`
\* characters and terminated by the newline.
MkLine(rec, chain, resSeq, score, len) ==
    LET full == rec \o Pad(" ", 6 - Len(rec)) \o Pad("x", 15) \o <<chain>>
                \o resSeq \o Pad(" ", 34) \o score
    IN  SubSeq(full, 1, Min(len, Len(full))) \o <<"NL">>

Res10 == <<" ", " ", "1", "0">>
Res11 == <<" ", " ", "1", "1">>
Sc050 == <<" ", " ", "0", ".", "5", "0">>
Sc090 == <<" ", " ", "0", ".", "9", "0">>
Sc030 == <<" ", " ", "0", ".", "3", "0">>

LineSet ==
    { MkLine(ATOM,   "A", Res10, Sc050, 66),
      MkLine(ATOM,   "A", Res10, Sc090, 66),
      MkLine(ATOM,   "A", Res11, Sc030, 66),
      MkLine(HETATM, "B", Res10, Sc090, 66),
      MkLine(REMARK, "A", Res10, Sc030, 66),
      MkLine(ATOM,   "A", Res11, Sc050, 30),    \* no score columns
      MkLine(ATOM,   "A", Res10, Sc050, 21),    \* column 21 is the newline
      MkLine(ATOM,   "A", Res10, Sc050, 4),     \* "ATOM" alone
      <<"NL">> }                                \* blank line

RECURSIVE SeqsUpTo(_, _)
SeqsUpTo(S, n) ==
    IF n = 0 THEN {<<>>}
    ELSE LET shorter == SeqsUpTo(S, n - 1)
         IN  shorter \cup {Append(f, l) : f \in {g \in shorter : Len(g) = n - 1}, l \in S}

FileSet == SeqsUpTo(LineSet, MaxLines)

(* --------------------------- parseDMMScores --------------------------- *)
\* line 233
isRecord(line) == startswith(line, ATOM) \/ startswith(line, HETATM)

\* line[21] raises IndexError on a line of at most 21 characters
raisesIndexError(line) == Len(line) <= 21

\* line 234
resIdOf(line) == strip(<<line[22]>>) \o <<":">> \o strip(Slice(line, 22, 26))

\* line 236
scoreOf(line) == strip(Slice(line, 60, 66))

\* line 237 as a last-wins store
storeLastWins(dic, line) ==
    [k \in DOMAIN dic \cup {resIdOf(line)} |->
        IF k = resIdOf(line) THEN scoreOf(line) ELSE dic[k]]

\* lines 235-237: store only when the key is not yet in the dictionary
store(dic, line) ==
    IF resIdOf(line) \in DOMAIN dic THEN dic
    ELSE [k \in DOMAIN dic \cup {resIdOf(line)} |->
            IF k = resIdOf(line) THEN scoreOf(line) ELSE dic[k]]

EmptyDic == [k \in {} |-> <<>>]

\* The whole function: [err |-> "" or the exception, dic |-> the map]
RECURSIVE parseFrom(_, _, _)
parseFrom(lines, i, dic) ==
    IF i > Len(lines) THEN [err |-> "", dic |-> dic]
    ELSE IF ~isRecord(lines[i]) THEN parseFrom(lines, i + 1, dic)
    ELSE IF raisesIndexError(lines[i]) THEN [err |-> "IndexError", dic |-> dic]
    ELSE parseFrom(lines, i + 1, store(dic, lines[i]))

parseDMMScores(lines) == parseFrom(lines, 1, EmptyDic)

InitParse ==
    /\ pdbFile \in FileSet
    /\ lineNo = 1
    /\ DMMDic = EmptyDic
    /\ parsePc = "loop"

\* one iteration of `for line in f` on a line that is not a record
SkipLine ==
    /\ parsePc = "loop" /\ lineNo <= Len(pdbFile)
    /\ ~isRecord(pdbFile[lineNo])
    /\ lineNo' = lineNo + 1
    /\ UNCHANGED <<pdbFile, DMMDic, parsePc>>
    /\ UNCHANGED <<runVars, pollVars, concVars>>

\* one iteration on an ATOM/HETATM line long enough for line[21]
RecordLine ==
    /\ parsePc = "loop" /\ lineNo <= Len(pdbFile)
    /\ isRecord(pdbFile[lineNo]) /\ ~raisesIndexError(pdbFile[lineNo])
    /\ DMMDic' = store(DMMDic, pdbFile[lineNo])
    /\ lineNo' = lineNo + 1
    /\ UNCHANGED <<pdbFile, parsePc>>
    /\ UNCHANGED <<runVars, pollVars, concVars>>

\* one iteration on an ATOM/HETATM line with no column 21
ShortRecordLine ==
    /\ parsePc = "loop" /\ lineNo <= Len(pdbFile)
    /\ isRecord(pdbFile[lineNo]) /\ raisesIndexError(pdbFile[lineNo])
    /\ parsePc' = "IndexError"
    /\ UNCHANGED <<pdbFile, lineNo, DMMDic>>
    /\ UNCHANGED <<runVars, pollVars, concVars>>

\* end of file: return DMMDic
ReturnDic ==
    /\ parsePc = "loop" /\ lineNo > Len(pdbFile)
    /\ parsePc' = "returned"
    /\ UNCHANGED <<pdbFile, lineNo, DMMDic>>
    /\ UNCHANGED <<runVars, pollVars, concVars>>


ParseIdle ==
    /\ pdbFile = <<>> /\ lineNo = 1 /\ DMMDic = EmptyDic /\ parsePc = "idle"

(* ----------------------------- file system ---------------------------- *)
\* A path is a sequence of names; a file system is the set of directories
\* that exist and a function from the paths of the files to their contents.
IsUnder(q, p) == Len(p) <= Len(q) /\ SubSeq(q, 1, Len(p)) = p

Rebase(q, src, dst) == dst \o SubSeq(q, Len(src) + 1, Len(q))

writeFile(f, p, content) ==
    [dirs  |-> f.dirs,
     files |-> [q \in DOMAIN f.files \cup {p} |-> IF q = p THEN content ELSE f.files[q]]]

makedirs(f, p) == [dirs |-> f.dirs \cup {SubSeq(p, 1, n) : n \in 1..Len(p)}, files |-> f.files]

\* shutil.copytree(src, dst) on a file system where it does not raise
copytree(f, src, dst) ==
    LET srcFiles == {q \in DOMAIN f.files : IsUnder(q, src)}
        newFiles == {Rebase(q, src, dst) : q \in srcFiles}
        g        == makedirs(f, dst)
    IN  [dirs  |-> g.dirs \cup {Rebase(d, src, dst) : d \in {e \in f.dirs : IsUnder(e, src)}},
         files |-> [q \in DOMAIN f.files \cup newFiles |->
                      IF q \in newFiles
                      THEN f.files[CHOOSE o \in srcFiles : Rebase(o, src, dst) = q]
                      ELSE f.files[q]]]

copytreeErrorIgnoreMissing(f, src, dst) == IF dst \in f.dirs THEN "FileExistsError" ELSE ""

\* the exception shutil.copytree raises, "" when it raises none
copytreeError(f, src, dst) ==
    IF src \notin f.dirs THEN "FileNotFoundError"
    ELSE IF dst \in f.dirs THEN "FileExistsError"
    ELSE ""

rmtreeKeep(f, p) == f

\* shutil.rmtree(p) on a file system where p is a directory
rmtree(f, p) ==
    [dirs  |-> {d \in f.dirs : ~IsUnder(d, p)},
     files |-> [q \in {r \in DOMAIN f.files : ~IsUnder(r, p)} |-> f.files[q]]]

(* ------------------------------- paths -------------------------------- *)
\* Plugin._DMMBinary
DMMBinary == <<"DMM">>

\* self._getExtraPath / self._getTmpPath / self._getPath of the run
getExtraPath(rel) == <<"Run", "extra">> \o rel
getTmpPath(rel)   == <<"Run", "tmp">> \o rel
getPath(rel)      == <<"Run">> \o rel

\* '{}_{}'.format(oriName, objId)
formatName(oriName, objId) ==
    CASE oriName = "volA" /\ objId = 1 -> "volA_1"
      [] oriName = "volA" /\ objId = 2 -> "volA_2"
      [] oriName = "volB" /\ objId = 1 -> "volB_1"
      [] oriName = "volB" /\ objId = 2 -> "volB_2"
      [] OTHER -> "vol"

getVolumeNameNoId(oriName, objId) == oriName

\* basename(splitext(getLocalVolumeFile())[0])
getVolumeName(oriName, objId) == formatName(oriName, objId)

getLocalVolumeFile(oriName, objId) == getExtraPath(<<"mrc", formatName(oriName, objId)>>)

\* os.path.join(Plugin._DMMBinary, 'Predict_Result', self.getVolumeName())
DMMDir(oriName, objId) == DMMBinary \o <<"Predict_Result", getVolumeName(oriName, objId)>>

\* outDir of DMMStep
outDir == getExtraPath(<<"predictions">>)

\* outDMMFile of createOutputStep
outDMMFile == getTmpPath(<<"predictions", "DMM_score_w9.pdb">>)

\* output_path of getDMMArgs
output_path == getTmpPath(<<"predictions">>)

mrcFile == getTmpPath(<<"inpVolume.mrc">>)

(* ---------------------- the run of the three steps --------------------- *)
\* the file the example of the score format parses to {A:10: 0.50, A:11: 0.30}
ExampleFile ==
    << MkLine(ATOM, "A", Res10, Sc050, 66),
       MkLine(ATOM, "A", Res10, Sc090, 66),
       MkLine(ATOM, "A", Res11, Sc030, 66) >>

\* the score files the predictor of the model can write
ScoreFiles ==
    { ExampleFile,
      << MkLine(REMARK, "A", Res10, Sc030, 66), MkLine(HETATM, "B", Res10, Sc090, 66) >>,
      << MkLine(ATOM, "A", Res10, Sc050, 66), MkLine(ATOM, "A", Res10, Sc050, 4) >> }

\* the sampling rates of the input volume, in Angstrom per voxel
SamplingRates == {1, 2}

\* the sampling rate createOutputStep sets (1.0, lines 153-154)
TargetSR == 1

\* what the external predictor may do before it exits
PredictorOutcomes ==
    [exit : {0, 1}, staging : {"none", "partial", "full"}, outArg : BOOLEAN, score : ScoreFiles]

\* the order in which the steps and their statements run (lines 86-157)
afterOriginFirst(stage) ==
    CASE stage = "_warnings"           -> "convert"
      [] stage = "convert"             -> "fixORIGIN"
      [] stage = "fixORIGIN"           -> "fixSTART"
      [] stage = "fixSTART"            -> "runJob"
      [] stage = "runJob"              -> "copytree"
      [] stage = "copytree"            -> "rmtree"
      [] stage = "rmtree"              -> "parseDMMScores"
      [] stage = "parseDMMScores"      -> "addScipionAttribute"
      [] stage = "addScipionAttribute" -> "defineOutputs"
      [] OTHER                         -> "finished"

after(stage) ==
    CASE stage = "_warnings"           -> "convert"
      [] stage = "convert"             -> "fixSTART"
      [] stage = "fixSTART"            -> "fixORIGIN"
      [] stage = "fixORIGIN"           -> "runJob"
      [] stage = "runJob"              -> "copytree"
      [] stage = "copytree"            -> "rmtree"
      [] stage = "rmtree"              -> "parseDMMScores"
      [] stage = "parseDMMScores"      -> "addScipionAttribute"
      [] stage = "addScipionAttribute" -> "defineOutputs"
      [] OTHER                         -> "finished"

runJobErrorIgnored(code) == ""

\* runJob raises when the subprocess exits with a non-zero code
runJobError(code) == IF code # 0 THEN "CalledProcessError" ELSE ""

rmtreeError(f, p) == IF p \notin f.dirs THEN "FileNotFoundError" ELSE ""

\* the files the predictor leaves behind
predictorWrites(f, dir, outcome) ==
    LET g == IF outcome.staging = "none" THEN f
             ELSE writeFile(makedirs(f, dir), dir \o <<"log.txt">>,
                            [kind |-> "log", data |-> <<>>])
        h == IF outcome.staging = "full"
             THEN writeFile(g, dir \o <<"DMM_score_w9.pdb">>,
                            [kind |-> "pdb", data |-> outcome.score])
             ELSE g
    IN  IF outcome.outArg
        THEN writeFile(makedirs(h, output_path), output_path \o <<"DMM_score_w9.pdb">>,
                       [kind |-> "pdb", data |-> outcome.score])
        ELSE h

\* the sampling rate of outVol (lines 151-154)
outVolSamplingRate(c) ==
    IF c.chimeraResampling /\ c.samplingRate # TargetSR /\ c.chimeraInstalled
    THEN TargetSR ELSE c.samplingRate

NoOutput == [defined |-> FALSE, samplingRate |-> 0, attribute |-> EmptyDic]

EmptyFs == [dirs |-> {}, files |-> [q \in {} |-> [kind |-> "", data |-> <<>>]]]

\* the installation directory and the run's working directory before a run
InitialFs(stale, outDirExists, objId) ==
    LET a == makedirs(makedirs(makedirs(EmptyFs, DMMBinary \o <<"Predict_Result", "other_9">>),
                               getExtraPath(<<>>)), getTmpPath(<<>>))
        b == writeFile(writeFile(a, DMMBinary \o <<"dmm_full_multithreads.sh">>,
                                 [kind |-> "sh", data |-> <<>>]),
                       DMMBinary \o <<"Predict_Result", "other_9", "DMM_score_w9.pdb">>,
                       [kind |-> "pdb", data |-> <<>>])
        c == IF stale
             THEN writeFile(makedirs(b, DMMDir("volA", objId)),
                            DMMDir("volA", objId) \o <<"stale.txt">>,
                            [kind |-> "log", data |-> <<>>])
             ELSE b
    IN  IF outDirExists THEN makedirs(c, outDir) ELSE c

\* the parameters of a run. chimeraResampling (lines 153, 172) and
\* inputAtomStruct (line 145) are read by the steps although _defineParams
\* does not declare them: they are taken as attributes the protocol object has.
Configs ==
    [oriName : {"volA"}, objId : {1, 2}, samplingRate : SamplingRates,
     chimeraResampling : BOOLEAN, chimeraInstalled : BOOLEAN, volReadable : BOOLEAN]

InitRun ==
    /\ cfg \in Configs
    /\ \E stale \in BOOLEAN, outDirExists \in BOOLEAN :
          fs = InitialFs(stale, outDirExists, cfg.objId)
    /\ pc = "_warnings"
    /\ done = <<>>
    /\ exitCode = -1
    /\ error = ""
    /\ warnings = <<>>
    /\ DMMScoresDic = EmptyDic
    /\ output = NoOutput
    /\ fsBeforeStep = EmptyFs
    /\ fsAfterJob = EmptyFs
    /\ relocated = {}

RunIdle ==
    /\ cfg = [oriName |-> "volA", objId |-> 1, samplingRate |-> 1,
              chimeraResampling |-> FALSE, chimeraInstalled |-> FALSE, volReadable |-> FALSE]
    /\ fs = EmptyFs
    /\ pc = "idle"
    /\ done = <<>>
    /\ exitCode = -1
    /\ error = ""
    /\ warnings = <<>>
    /\ DMMScoresDic = EmptyDic
    /\ output = NoOutput
    /\ fsBeforeStep = EmptyFs
    /\ fsAfterJob = EmptyFs
    /\ relocated = {}

\* a statement raised: the step fails and no later step runs
Fail(exc) == pc' = "failed" /\ error' = exc

\* _warnings (lines 169-176)
Warnings ==
    /\ pc = "_warnings"
    /\ warnings' = IF cfg.chimeraResampling /\ ~cfg.chimeraInstalled
                   THEN <<"Chimera program is not found">> ELSE <<>>
    /\ pc' = after("_warnings")
    /\ UNCHANGED <<done, fs, cfg, exitCode, error, DMMScoresDic, output,
                   fsBeforeStep, fsAfterJob, relocated>>
    /\ UNCHANGED <<parseVars, pollVars, concVars>>

\* convertInputStep, ImageHandler().convert (lines 93-98)
Convert ==
    /\ pc = "convert"
    /\ IF cfg.volReadable
       THEN /\ fs' = writeFile(fs, mrcFile, [kind |-> "mrc", data |-> <<>>])
            /\ done' = Append(done, "convert")
            /\ pc' = after("convert")
            /\ UNCHANGED error
       ELSE Fail("ConversionError") /\ UNCHANGED <<fs, done>>
    /\ UNCHANGED <<cfg, exitCode, warnings, DMMScoresDic, output,
                   fsBeforeStep, fsAfterJob, relocated>>
    /\ UNCHANGED <<parseVars, pollVars, concVars>>

\* convertInputStep, Ccp4Header.fixFile(mrcFile, mrcFile, ..., START) (lines 99-100)
FixStart ==
    /\ pc = "fixSTART"
    /\ fs' = writeFile(fs, mrcFile,
                       [kind |-> "mrc", data |-> Append(fs.files[mrcFile].data, "START")])
    /\ done' = Append(done, "fixSTART")
    /\ pc' = after("fixSTART")
    /\ UNCHANGED <<cfg, exitCode, error, warnings, DMMScoresDic, output,
                   fsBeforeStep, fsAfterJob, relocated>>
    /\ UNCHANGED <<parseVars, pollVars, concVars>>

\* convertInputStep, Ccp4Header.fixFile(mrcFile, getLocalVolumeFile(), ..., ORIGIN)
\* (lines 103-104)
FixOrigin ==
    /\ pc = "fixORIGIN"
    /\ fs' = writeFile(makedirs(fs, getExtraPath(<<"mrc">>)),
                       getLocalVolumeFile(cfg.oriName, cfg.objId),
                       [kind |-> "mrc", data |-> Append(fs.files[mrcFile].data, "ORIGIN")])
    /\ done' = Append(done, "fixORIGIN")
    /\ pc' = after("fixORIGIN")
    /\ UNCHANGED <<cfg, exitCode, error, warnings, DMMScoresDic, output,
                   fsBeforeStep, fsAfterJob, relocated>>
    /\ UNCHANGED <<parseVars, pollVars, concVars>>

\* DMMStep, getDMMArgs and self.runJob (lines 110-120): the sequence file is
\* copied next to the volume, the predictor runs and exits
RunJob ==
    /\ pc = "runJob"
    /\ \E outcome \in PredictorOutcomes :
         LET withFasta == writeFile(fs, getExtraPath(<<"volA.fasta">>),
                                    [kind |-> "fasta", data |-> <<>>])
             afterJob  == predictorWrites(withFasta, DMMDir(cfg.oriName, cfg.objId), outcome)
         IN  /\ fsBeforeStep' = fs
             /\ fs' = afterJob
             /\ fsAfterJob' = afterJob
             /\ exitCode' = outcome.exit
             /\ done' = Append(done, "runJob")
             /\ IF runJobError(outcome.exit) # ""
                THEN Fail(runJobError(outcome.exit))
                ELSE pc' = after("runJob") /\ UNCHANGED error
    /\ UNCHANGED <<cfg, warnings, DMMScoresDic, output, relocated>>
    /\ UNCHANGED <<parseVars, pollVars, concVars>>

\* DMMStep, shutil.copytree(DMMDir, outDir) (lines 122-125)
CopyTree ==
    /\ pc = "copytree"
    /\ LET src == DMMDir(cfg.oriName, cfg.objId)
           exc == copytreeError(fs, src, outDir)
       IN  IF exc # ""
           THEN Fail(exc) /\ UNCHANGED <<fs, done, relocated>>
           ELSE /\ fs' = copytree(fs, src, outDir)
                /\ relocated' = {Rebase(q, src, outDir) :
                                   q \in {r \in DOMAIN fs.files : IsUnder(r, src)}}
                /\ done' = Append(done, "copytree")
                /\ pc' = after("copytree")
                /\ UNCHANGED error
    /\ UNCHANGED <<cfg, exitCode, warnings, DMMScoresDic, output, fsBeforeStep, fsAfterJob>>
    /\ UNCHANGED <<parseVars, pollVars, concVars>>

\* DMMStep, shutil.rmtree(DMMDir) (line 126)
RmTree ==
    /\ pc = "rmtree"
    /\ LET src == DMMDir(cfg.oriName, cfg.objId)
           exc == rmtreeError(fs, src)
       IN  IF exc # ""
           THEN Fail(exc) /\ UNCHANGED <<fs, done>>
           ELSE /\ fs' = rmtree(fs, src)
                /\ done' = Append(done, "rmtree")
                /\ pc' = after("rmtree")
                /\ UNCHANGED error
    /\ UNCHANGED <<cfg, exitCode, warnings, DMMScoresDic, output,
                   fsBeforeStep, fsAfterJob, relocated>>
    /\ UNCHANGED <<parseVars, pollVars, concVars>>

\* createOutputStep, self.parseDMMScores(outDMMFile) (lines 139-144)
ParseScores ==
    /\ pc = "parseDMMScores"
    /\ IF outDMMFile \notin DOMAIN fs.files
       THEN Fail("FileNotFoundError") /\ UNCHANGED <<done, DMMScoresDic>>
       ELSE LET r == parseDMMScores(fs.files[outDMMFile].data)
            IN  IF r.err # ""
                THEN Fail(r.err) /\ UNCHANGED <<done, DMMScoresDic>>
                ELSE /\ DMMScoresDic' = r.dic
                     /\ done' = Append(done, "parseDMMScores")
                     /\ pc' = after("parseDMMScores")
                     /\ UNCHANGED error
    /\ UNCHANGED <<fs, cfg, exitCode, warnings, output, fsBeforeStep, fsAfterJob, relocated>>
    /\ UNCHANGED <<parseVars, pollVars, concVars>>

\* createOutputStep, toCIF / readLowLevel / addScipionAttribute / _writeLowLevel
\* (lines 145-148)
AddScipionAttribute ==
    /\ pc = "addScipionAttribute"
    /\ fs' = writeFile(fs, getPath(<<"outputStructure.cif">>),
                       [kind |-> "cif", data |-> <<"DMM_score">>])
    /\ done' = Append(done, "addScipionAttribute")
    /\ pc' = after("addScipionAttribute")
    /\ UNCHANGED <<cfg, exitCode, error, warnings, DMMScoresDic, output,
                   fsBeforeStep, fsAfterJob, relocated>>
    /\ UNCHANGED <<parseVars, pollVars, concVars>>

\* createOutputStep, outVol and self._defineOutputs (lines 150-157)
DefineOutputs ==
    /\ pc = "defineOutputs"
    /\ output' = [defined |-> TRUE, samplingRate |-> outVolSamplingRate(cfg),
                  attribute |-> DMMScoresDic]
    /\ done' = Append(done, "defineOutputs")
    /\ pc' = after("defineOutputs")
    /\ UNCHANGED <<fs, cfg, exitCode, error, warnings, DMMScoresDic,
                   fsBeforeStep, fsAfterJob, relocated>>
    /\ UNCHANGED <<parseVars, pollVars, concVars>>



(* --------------------------- chimeraResample --------------------------- *)
\* the arguments of chimeraResample and what the environment will do:
\* whether `from chimera import Plugin` succeeds, whether the external tool
\* ever saves the file, whether outFile is there before the call
ResampleInputs ==
    [inVolFile : {"volA_1.mrc", "volA_2.mrc"}, newSR : SamplingRates, outFile : {"resampled.mrc"},
     importable : BOOLEAN, toolSaves : BOOLEAN]

\* chimeraResampleScript (lines 246-254)
chimeraResampleScript(inVolFile, newSampling, outFile) ==
    << <<"cd", "cwd">>, <<"open", inVolFile>>,
       <<"vol resample #1 spacing", newSampling>>,
       <<"save", outFile, "model #2">>, <<"exit">> >>

loopEndsAtOnce(files, outFile) == TRUE

\* the negation of the loop condition of line 262
loopEnds(files, outFile) == outFile \in files

InitResample ==
    /\ rin \in ResampleInputs
    /\ \E stale \in BOOLEAN : rfs = IF stale THEN {rin.inVolFile, rin.outFile} ELSE {rin.inVolFile}
    /\ rpc = "import"
    /\ script = <<>>
    /\ sleeps = 0
    /\ toolRun = FALSE

PollIdle ==
    /\ rin = [inVolFile |-> "volA_1.mrc", newSR |-> 1, outFile |-> "resampled.mrc",
              importable |-> FALSE, toolSaves |-> FALSE]
    /\ rfs = {} /\ rpc = "idle" /\ script = <<>> /\ sleeps = 0 /\ toolRun = FALSE

\* lines 257-258: weakImport swallows the ImportError and the body of the
\* `with` is skipped, so the function goes straight to `return outFile`
ImportChimera ==
    /\ rpc = "import"
    /\ rpc' = IF rin.importable THEN "script" ELSE "returned"
    /\ UNCHANGED <<rin, rfs, script, sleeps, toolRun>>
    /\ UNCHANGED <<parseVars, runVars, concVars>>

\* line 259
WriteScript ==
    /\ rpc = "script"
    /\ script' = chimeraResampleScript(rin.inVolFile, rin.newSR, rin.outFile)
    /\ rfs' = rfs \cup {"resampleVolume.cxc"}
    /\ rpc' = "runChimera"
    /\ UNCHANGED <<rin, sleeps, toolRun>>
    /\ UNCHANGED <<parseVars, runVars, concVars>>

\* lines 260-261: the external tool is run on the script
RunChimeraProgram ==
    /\ rpc = "runChimera"
    /\ toolRun' = TRUE
    /\ rpc' = "poll"
    /\ UNCHANGED <<rin, rfs, script, sleeps>>
    /\ UNCHANGED <<parseVars, runVars, concVars>>

\* the external tool executes the `save` command of the script
ToolSaves ==
    /\ toolRun /\ rin.toolSaves /\ script[4][2] \notin rfs
    /\ rfs' = rfs \cup {script[4][2]}
    /\ UNCHANGED <<rpc, rin, script, sleeps, toolRun>>
    /\ UNCHANGED <<parseVars, runVars, concVars>>

\* line 262, the test of the loop; line 264 when it ends
PollExists ==
    /\ rpc = "poll"
    /\ rpc' = IF loopEnds(rfs, rin.outFile) THEN "returned" ELSE "sleep"
    /\ UNCHANGED <<rin, rfs, script, sleeps, toolRun>>
    /\ UNCHANGED <<parseVars, runVars, concVars>>

\* line 263
Sleep ==
    /\ rpc = "sleep"
    /\ sleeps' = Min(sleeps + 1, MaxSleeps)
    /\ rpc' = "poll"
    /\ UNCHANGED <<rin, rfs, script, toolRun>>
    /\ UNCHANGED <<parseVars, runVars, concVars>>

(* ------------- two runs sharing the installation directory ------------- *)
Runs == {1, 2}

PredictorFiles == {"DMM_score_w9.pdb", "log.txt"}

RunNames == [oriName : {"volA", "volB"}, objId : {1, 2}]

\* self._getExtraPath('predictions') of run r
outDirOf(r) == <<IF r = 1 THEN "Run1" ELSE "Run2", "extra", "predictions">>

stagingOf(r) == DMMDir(cname[r].oriName, cname[r].objId)

InitConc ==
    /\ cname \in [Runs -> RunNames]
    /\ cpc = [r \in Runs |-> "runJob"]
    /\ cfs = makedirs(makedirs(makedirs(EmptyFs, DMMBinary \o <<"Predict_Result">>),
                               <<"Run1", "extra">>), <<"Run2", "extra">>)
    /\ cwritten = [r \in Runs |-> {}]

ConcIdle ==
    /\ cname = [r \in Runs |-> [oriName |-> "volA", objId |-> 1]]
    /\ cpc = [r \in Runs |-> "idle"]
    /\ cfs = EmptyFs
    /\ cwritten = [r \in Runs |-> {}]

\* DMMStep of run r, self.runJob starts the predictor (line 120)
Launch(r) ==
    /\ cpc[r] = "runJob"
    /\ cpc' = [cpc EXCEPT ![r] = "running"]
    /\ UNCHANGED <<cname, cfs, cwritten>>
    /\ UNCHANGED <<parseVars, runVars, pollVars>>

\* the predictor of run r writes one of its files under Predict_Result/<name>
PredictorWrite(r) ==
    /\ cpc[r] = "running"
    /\ \E f \in PredictorFiles \ cwritten[r] :
          /\ cfs' = writeFile(makedirs(cfs, stagingOf(r)), stagingOf(r) \o <<f>>,
                              [kind |-> "out", data |-> <<r>>])
          /\ cwritten' = [cwritten EXCEPT ![r] = @ \cup {f}]
    /\ UNCHANGED <<cname, cpc>>
    /\ UNCHANGED <<parseVars, runVars, pollVars>>

\* the predictor of run r exits: with 0 when it has written its files, or
\* with a non-zero code at any time; runJob returns or raises
PredictorExit(r) ==
    /\ cpc[r] = "running"
    /\ \E code \in {0, 1} :
          /\ code = 0 => cwritten[r] = PredictorFiles
          /\ cpc' = [cpc EXCEPT ![r] = IF runJobError(code) # "" THEN "failed:job"
                                       ELSE "copytree"]
    /\ UNCHANGED <<cname, cfs, cwritten>>
    /\ UNCHANGED <<parseVars, runVars, pollVars>>

\* DMMStep of run r, shutil.copytree(DMMDir, outDir) (lines 122-125)
CopyTreeOf(r) ==
    /\ cpc[r] = "copytree"
    /\ IF copytreeError(cfs, stagingOf(r), outDirOf(r)) # ""
       THEN cpc' = [cpc EXCEPT ![r] = "failed:copytree"] /\ UNCHANGED cfs
       ELSE /\ cfs' = copytree(cfs, stagingOf(r), outDirOf(r))
            /\ cpc' = [cpc EXCEPT ![r] = "rmtree"]
    /\ UNCHANGED <<cname, cwritten>>
    /\ UNCHANGED <<parseVars, runVars, pollVars>>

\* DMMStep of run r, shutil.rmtree(DMMDir) (line 126)
RmTreeOf(r) ==
    /\ cpc[r] = "rmtree"
    /\ IF rmtreeError(cfs, stagingOf(r)) # ""
       THEN cpc' = [cpc EXCEPT ![r] = "failed:rmtree"] /\ UNCHANGED cfs
       ELSE /\ cfs' = rmtree(cfs, stagingOf(r))
            /\ cpc' = [cpc EXCEPT ![r] = "done"]
    /\ UNCHANGED <<cname, cwritten>>
    /\ UNCHANGED <<parseVars, runVars, pollVars>>

(* --------------------------- specifications --------------------------- *)
\* one run of the protocol
Init == InitRun /\ ParseIdle /\ PollIdle /\ ConcIdle

Next ==
    \/ Warnings \/ Convert \/ FixStart \/ FixOrigin
    \/ RunJob \/ CopyTree \/ RmTree
    \/ ParseScores \/ AddScipionAttribute \/ DefineOutputs

Spec == Init /\ [][Next]_vars

\* parseDMMScores on every file of FileSet
InitP == InitParse /\ RunIdle /\ PollIdle /\ ConcIdle

NextP == SkipLine \/ RecordLine \/ ShortRecordLine \/ ReturnDic

SpecParse == InitP /\ [][NextP]_vars

\* chimeraResample; the interpreter keeps executing the function's statements,
\* the external tool is under no obligation
InitR == InitResample /\ ParseIdle /\ RunIdle /\ ConcIdle

NextR == ImportChimera \/ WriteScript \/ RunChimeraProgram \/ ToolSaves \/ PollExists \/ Sleep

SpecResample ==
    /\ InitR /\ [][NextR]_vars
    /\ WF_vars(ImportChimera) /\ WF_vars(WriteScript) /\ WF_vars(RunChimeraProgram)
    /\ WF_vars(PollExists) /\ WF_vars(Sleep)

\* two runs executing DMMStep concurrently
InitC == InitConc /\ ParseIdle /\ RunIdle /\ PollIdle

NextC ==
    \/ \E r \in Runs : Launch(r)
    \/ \E r \in Runs : PredictorWrite(r)
    \/ \E r \in Runs : PredictorExit(r)
    \/ \E r \in Runs : CopyTreeOf(r)
    \/ \E r \in Runs : RmTreeOf(r)

SpecConc == InitC /\ [][NextC]_vars

(* ------------------------------ properties ---------------------------- *)
Range(q) == {q[i] : i \in 1..Len(q)}

\* the index of the first ATOM/HETATM line of the file whose key is k
FirstLineOf(k) ==
    CHOOSE i \in 1..Len(pdbFile) :
        /\ isRecord(pdbFile[i]) /\ ~raisesIndexError(pdbFile[i]) /\ resIdOf(pdbFile[i]) = k
        /\ \A j \in 1..(i - 1) :
              ~(isRecord(pdbFile[j]) /\ ~raisesIndexError(pdbFile[j]) /\ resIdOf(pdbFile[j]) = k)

\* C1: at every point of parseDMMScores, and so in the map it returns, every
\* residue key of an ATOM/HETATM line read so far is in the dictionary with
\* the trimmed columns 60-66 of the first line of the file that has that key,
\* and the dictionary has no other key: a later line never overwrites.
C1_FirstWins ==
    parsePc \in {"loop", "returned"} =>
        /\ \A i \in 1..(lineNo - 1) :
              isRecord(pdbFile[i]) =>
                  /\ resIdOf(pdbFile[i]) \in DOMAIN DMMDic
                  /\ DMMDic[resIdOf(pdbFile[i])] =
                        strip(Slice(pdbFile[FirstLineOf(resIdOf(pdbFile[i]))], 60, 66))
        /\ \A k \in DOMAIN DMMDic :
              \E i \in 1..(lineNo - 1) : isRecord(pdbFile[i]) /\ resIdOf(pdbFile[i]) = k

\* the example: A:10 with 0.50 then 0.90, A:11 with 0.30
C1_Witness ==
    /\ parsePc = "returned"
    /\ pdbFile = ExampleFile
    /\ DOMAIN DMMDic = {<<"A", ":", "1", "0">>, <<"A", ":", "1", "1">>}
    /\ DMMDic[<<"A", ":", "1", "0">>] = <<"0", ".", "5", "0">>
    /\ DMMDic[<<"A", ":", "1", "1">>] = <<"0", ".", "3", "0">>

\* a line that carries the chain, residue-number and score columns
WellFormed(line) == isRecord(line) /\ Len(line) >= 66

\* C6: parsing never ends in an error, and the map returned has exactly the
\* keys of the well-formed ATOM/HETATM lines, none with an empty value.
C6_ParseTolerant ==
    /\ parsePc # "IndexError"
    /\ parsePc = "returned" =>
          /\ DOMAIN DMMDic =
                {resIdOf(pdbFile[i]) : i \in {j \in 1..Len(pdbFile) : WellFormed(pdbFile[j])}}
          /\ \A k \in DOMAIN DMMDic : DMMDic[k] # <<>>

\* the stages of a run in the order of the claim
StageOrder ==
    <<"convert", "fixSTART", "fixORIGIN", "runJob", "copytree", "rmtree",
      "parseDMMScores", "addScipionAttribute", "defineOutputs">>

localVolume == getLocalVolumeFile(cfg.oriName, cfg.objId)

staging == DMMDir(cfg.oriName, cfg.objId)

\* C2: once DMMStep has completed, the staging directory is gone, every file
\* that was in it is under the run's predictions directory with its content,
\* and the rest of the installation directory is as it was before the step.
C2_Relocated ==
    "rmtree" \in Range(done) =>
        /\ staging \notin fs.dirs
        /\ \A q \in DOMAIN fs.files : ~IsUnder(q, staging)
        /\ \A q \in DOMAIN fsAfterJob.files :
              IsUnder(q, staging) =>
                  /\ Rebase(q, staging, outDir) \in DOMAIN fs.files
                  /\ fs.files[Rebase(q, staging, outDir)] = fsAfterJob.files[q]
        /\ {d \in fs.dirs : IsUnder(d, DMMBinary)}
              = {d \in fsBeforeStep.dirs : IsUnder(d, DMMBinary) /\ ~IsUnder(d, staging)}
        /\ {q \in DOMAIN fs.files : IsUnder(q, DMMBinary)}
              = {q \in DOMAIN fsBeforeStep.files : IsUnder(q, DMMBinary) /\ ~IsUnder(q, staging)}
        /\ \A q \in DOMAIN fs.files :
              IsUnder(q, DMMBinary) => fs.files[q] = fsBeforeStep.files[q]

C2_Witness ==
    /\ "rmtree" \in Range(done)
    /\ staging \o <<"stale.txt">> \in DOMAIN fsBeforeStep.files
    /\ outDir \o <<"DMM_score_w9.pdb">> \in DOMAIN fs.files
    /\ outDir \o <<"stale.txt">> \in DOMAIN fs.files

\* C3: the stages completed are always an initial part of the fixed order,
\* and the predictor is launched only on a local volume whose header had the
\* START pass and then the ORIGIN pass.
C3_StageOrder ==
    /\ Len(done) <= Len(StageOrder)
    /\ \A i \in 1..Len(done) : done[i] = StageOrder[i]
    /\ (pc = "runJob" \/ "runJob" \in Range(done)) =>
          /\ localVolume \in DOMAIN fs.files
          /\ fs.files[localVolume].data = <<"START", "ORIGIN">>

C3_Witness == pc = "finished" /\ done = StageOrder /\ output.defined

\* C4: after a non-zero exit the run has failed with the job error, the file
\* system is as the predictor left it (nothing copied, nothing deleted), no
\* later stage has run and no output is defined.
C4_JobFailure ==
    exitCode \notin {0, -1} =>
        /\ pc = "failed" /\ error = "CalledProcessError"
        /\ fs = fsAfterJob
        /\ Range(done) \cap {"copytree", "rmtree", "parseDMMScores",
                             "addScipionAttribute", "defineOutputs"} = {}
        /\ DMMScoresDic = EmptyDic
        /\ ~output.defined

\* a failed job that left a full staging directory and an -o directory behind
C4_Witness ==
    /\ exitCode = 1 /\ pc = "failed"
    /\ staging \o <<"DMM_score_w9.pdb">> \in DOMAIN fs.files
    /\ outDMMFile \in DOMAIN fs.files

\* C5: when the predictor exited with 0 and left no staging directory, the
\* copy raises: the run has failed with an error that is not the job error,
\* no predictions directory was created, no later stage runs.
C5_MissingOutput ==
    (exitCode = 0 /\ staging \notin fsAfterJob.dirs /\ pc # "copytree") =>
        /\ pc = "failed" /\ error = "FileNotFoundError"
        /\ error # runJobError(1)
        /\ fs = fsAfterJob
        /\ Range(done) \cap {"copytree", "rmtree", "parseDMMScores",
                             "addScipionAttribute", "defineOutputs"} = {}
        /\ ~output.defined

C5_Witness ==
    /\ exitCode = 0 /\ staging \notin fsAfterJob.dirs
    /\ pc = "failed" /\ error = "FileNotFoundError"
    /\ outDir \notin fs.dirs

\* C7: the output volume has the target sampling rate, different from the
\* input's, only in a run in which the resampler has run, and in a run
\* without the visualizer the warning is reported and the rate is kept.
C7_ResampledBeforeTargetRate ==
    output.defined =>
        /\ (output.samplingRate = TargetSR /\ cfg.samplingRate # TargetSR)
              => "chimeraResample" \in Range(done)
        /\ (cfg.chimeraResampling /\ ~cfg.chimeraInstalled)
              => (warnings # <<>> /\ output.samplingRate = cfg.samplingRate)

\* C9: the score file createOutputStep is about to read is one of the files
\* DMMStep relocated, and it exists.
C9_ParsesRelocatedFile ==
    pc = "parseDMMScores" => (outDMMFile \in relocated /\ outDMMFile \in DOMAIN fs.files)

\* C8 as stated: chimeraResample returns only in a state where outFile exists.
C8_ReturnsOnlyWithFile == rpc = "returned" => rin.outFile \in rfs

\* C8: when the chimera plugin is importable, chimeraResample returns only in
\* a state where outFile exists (so never, if the file never appears), and
\* in every execution, once outFile exists the function returns.
C8_PollUntilFile ==
    /\ []((rpc = "returned" /\ rin.importable) => rin.outFile \in rfs)
    /\ ((rin.outFile \in rfs) ~> (rpc = "returned"))

\* the function slept, the tool saved the file, the function returned
C8_Witness ==
    /\ rpc = "returned" /\ rin.importable /\ sleeps >= 2 /\ rin.outFile \in rfs

\* the files under the predictions directory of run r
predictionsOf(r) == {q \in DOMAIN cfs.files : IsUnder(q, outDirOf(r))}

OwnOutput(r) ==
    /\ predictionsOf(r) = {outDirOf(r) \o <<f>> : f \in PredictorFiles}
    /\ \A q \in predictionsOf(r) : cfs.files[q].data = <<r>>

\* C10: when the two runs differ in original base name or object id, a run
\* that has copied holds exactly its own predictor's files, a run whose
\* predictor has exited still finds its staging directory whole, and no copy
\* or delete fails; and a run holds a file of the other run's predictor only
\* when both have the same staging path.
C10_Isolation ==
    /\ cname[1] # cname[2] =>
          \A r \in Runs :
              /\ cpc[r] \in {"rmtree", "done"} => OwnOutput(r)
              /\ cpc[r] \notin {"failed:copytree", "failed:rmtree"}
              /\ cpc[r] = "copytree" =>
                    \A f \in PredictorFiles :
                        /\ stagingOf(r) \o <<f>> \in DOMAIN cfs.files
                        /\ cfs.files[stagingOf(r) \o <<f>>].data = <<r>>
    /\ \A r \in Runs, t \in Runs :
          (r # t /\ \E q \in predictionsOf(r) : cfs.files[q].data = <<t>>)
              => stagingOf(r) = stagingOf(t)

\* same original base name, different object ids, both runs done
C10_Witness ==
    /\ cname[1].oriName = cname[2].oriName /\ cname[1].objId # cname[2].objId
    /\ \A r \in Runs : cpc[r] = "done" /\ OwnOutput(r)

====
